---- MODULE Spec2Model ----
(***************************************************************************)
(* The consent wizard of LePlay (consent.js and its sibling copy           *)
(* unnamed/part_000): a three step form (mobile lookup, details, signature *)
(* and submit) driven by DOM events and two asynchronous requests.         *)
(*                                                                         *)
(* Text is a sequence of one-character strings, so that trim(), the        *)
(* digit filter of the mobile field and the regular expression of          *)
(* validateMobile are computed rather than assumed.  A JavaScript object   *)
(* is a function from its keys; a missing key reads as the empty text.     *)
(***************************************************************************)
EXTENDS Integers, Sequences, FiniteSets, TLC

VARIABLES
  env,                 \* the deployed file, what `dobHint` resolves to, time zone
  step,                \* which of step1..step3 carries the class `active`
  mobile,              \* mobileNumberInput.value
  parentName,          \* parentNameInput.value
  parentReadOnly,      \* parentNameInput.readOnly
  isExistingCustomer,  \* the closure variable of that name
  children,            \* the .child-group elements of childrenContainer, in order
  pad,                 \* the signature pad's stroke data
  finishDisabled,      \* finishBtn.disabled
  lookups,             \* GET /api/consent requests awaiting their response
  posts,               \* POST /api/consent requests awaiting their response
  location,            \* window.location: the form, or the completion page
  out,                 \* what the last handler showed and sent
  proxy,               \* the serverless proxy: its request, its fetch, its reply
  queue,               \* the queue page: its controls, interval, requests, lists
  metrics              \* the analytics page: its panels, error message, requests

vars == <<env, step, mobile, parentName, parentReadOnly, isExistingCustomer,
          children, pad, finishDisabled, lookups, posts, location,
          out, proxy, queue, metrics>>

---------------------------------------------------------------------------
(* Bounds of the model                                                     *)

MaxChildren == 2
MaxLookups == 2
MaxPosts == 2
\* The rows of the repeater when it is studied on its own (SpecRepeater)
MaxRows == 3

---------------------------------------------------------------------------
(* Text                                                                    *)

Empty == <<>>
Digits == {"0", "1", "2", "3", "4", "5", "6", "7", "8", "9"}
Min(a, b) == IF a < b THEN a ELSE b

RECURSIVE TrimLeft(_)
TrimLeft(s) == IF s # <<>> /\ Head(s) = " " THEN TrimLeft(Tail(s)) ELSE s

RECURSIVE TrimRight(_)
TrimRight(s) ==
  IF s # <<>> /\ s[Len(s)] = " " THEN TrimRight(SubSeq(s, 1, Len(s) - 1)) ELSE s

\* String.prototype.trim
Trim(s) == TrimRight(TrimLeft(s))

IsDigit(c) == c \in Digits

\* A filter that drops what is no digit and keeps any length
SanitizeMobile_NoSlice(raw) == SelectSeq(raw, IsDigit)
\* value.replace(/\D/g, '').slice(0, 10)
SanitizeMobile(raw) ==
  LET digitsOnly == SelectSeq(raw, IsDigit)
  IN  SubSeq(digitsOnly, 1, Min(10, Len(digitsOnly)))

\* The pattern with its leading class widened to [5-9]
MobileRegexTest_WideLead(s) ==
  /\ Len(s) = 1 + 9
  /\ s[1] \in {"5", "6", "7", "8", "9"}
  /\ \A i \in 2..Len(s) : s[i] \in Digits

\* /^[6-9][0-9]{9}$/.test(s): the anchors fix the length, the first class the
\* leading character, the counted class the other nine.
MobileRegexTest(s) ==
  /\ Len(s) = 1 + 9
  /\ s[1] \in {"6", "7", "8", "9"}
  /\ \A i \in 2..Len(s) : s[i] \in Digits

\* A check that passes whatever is not empty
validateMobile_NonEmpty(value) == Trim(value) # Empty
\* validateMobile(): the trimmed field value against the pattern
validateMobile(value) == MobileRegexTest(Trim(value))

---------------------------------------------------------------------------
(* Dates                                                                   *)

\* new Date(): the current local calendar date <<year, month, day>>
Today == <<2025, 6, 15>>

IsLeap(y) == (y % 4 = 0 /\ y % 100 # 0) \/ y % 400 = 0

\* new Date(y - 2, m, d): a 29 February that does not exist rolls to 1 March
TwoYearsAgo(t) ==
  IF t[2] = 2 /\ t[3] = 29 /\ ~IsLeap(t[1] - 2)
  THEN <<t[1] - 2, 3, 1>>
  ELSE <<t[1] - 2, t[2], t[3]>>

DateLess(d, e) ==
  \/ d[1] < e[1]
  \/ d[1] = e[1] /\ d[2] < e[2]
  \/ d[1] = e[1] /\ d[2] = e[2] /\ d[3] < e[3]

\* A date text: its three numeric fields in the order they are written.
NoDate == [fmt |-> "none", a |-> 0, b |-> 0, c |-> 0]
Ymd(d) == [fmt |-> "ymd", a |-> d[1], b |-> d[2], c |-> d[3]]
Dmy(d) == [fmt |-> "dmy", a |-> d[3], b |-> d[2], c |-> d[1]]
OtherDate == [fmt |-> "other", a |-> 0, b |-> 0, c |-> 0]

\* The calendar date a yyyy-mm-dd text names
DateOf(s) == <<s.a, s.b, s.c>>

---------------------------------------------------------------------------
(* The environment of one page load                                        *)

\* consent.js declares no `dobHint` (its declaration is commented out, lines
\* 198-203) and still appends it at line 239, so the identifier is looked up
\* on the global object: it resolves only when the hosting page defines a
\* global of that name, and throws a ReferenceError otherwise.  part_000
\* declares it locally (line 190).  today is the local calendar date of the
\* load, and tzEast tells whether local time is ahead of UTC.
Builds ==
  {[build |-> "part_000", dobHint |-> TRUE]}
  \cup {[build |-> "consent.js", dobHint |-> h] : h \in BOOLEAN}

\* The loads of the wizard as a whole: one day, at or behind UTC
Envs == { b @@ [today |-> Today, tzEast |-> FALSE] : b \in Builds }

\* The loads on which the date rules are studied: a day that has its
\* counterpart two years before and one that has not, on either side of UTC
DateEnvs ==
  { b @@ [today |-> t, tzEast |-> z] :
      b \in Builds, t \in {Today, <<2024, 2, 29>>}, z \in BOOLEAN }

\* consent.js has a display-name input per child, part_000 has none
HasDisplayName == env.build = "consent.js"

\* const twoYearsAgoDate (the date pickers' maxDate) and validateChildren's
\* twoYearsAgo: local midnight of the day two years before today
twoYearsAgoDate == TwoYearsAgo(env.today)

---------------------------------------------------------------------------
(* JavaScript objects of the lookup response                               *)

\* obj.key, with undefined read as the empty text
Prop(obj, key) == IF key \in DOMAIN obj THEN obj[key] ELSE Empty

\* A chain that reads its first operand only
Or3_FirstOnly(a, b, c) == a
\* a || b || c || ''
Or3(a, b, c) == IF a # Empty THEN a ELSE IF b # Empty THEN b ELSE c

JsonNull == [null |-> TRUE]
IsNull(obj) == "null" \in DOMAIN obj

---------------------------------------------------------------------------
(* Child groups                                                            *)

\* setupDatePicker(input, defaultValue): flatpickr parses defaultDate with
\* dateFormat 'Y-m-d' as a local date, drops it when it lies after maxDate,
\* and writes the selected date back into the input in that format.
setupDatePicker(defaultValue) ==
  IF defaultValue.fmt # "ymd" THEN NoDate
  ELSE IF DateLess(twoYearsAgoDate, DateOf(defaultValue)) THEN NoDate
  ELSE Ymd(DateOf(defaultValue))

\* The preselection without the reordering of a dd/mm/yyyy text
prepopDate_NoSwap(child) ==
  LET dob == IF "dob" \in DOMAIN child THEN child["dob"] ELSE NoDate
  IN  IF dob.fmt = "none" THEN NoDate
      ELSE IF dob.fmt \in {"ymd", "dmy"}
           THEN [fmt |-> "ymd", a |-> dob.a, b |-> dob.b, c |-> dob.c]
      ELSE NoDate

\* addChildGroup, lines 212-221: the date to preselect
prepopDate(child) ==
  LET dob == IF "dob" \in DOMAIN child THEN child["dob"] ELSE NoDate
  IN  IF dob.fmt = "none" THEN NoDate
      ELSE IF dob.fmt = "ymd" THEN dob
      ELSE IF dob.fmt = "dmy"
           \* const [dd, mm, yyyy] = child.dob.split('/'); `${yyyy}-${mm}-${dd}`
           THEN [fmt |-> "ymd", a |-> dob.c, b |-> dob.b, c |-> dob.a]
      ELSE NoDate

\* The element with its Remove button displayed whatever its position
NewGroup_RemovableFirst(groupIndex, child) ==
  [ index       |-> groupIndex,
    header      |-> groupIndex,
    nameId      |-> groupIndex,
    displayId   |-> IF HasDisplayName THEN groupIndex ELSE 0,
    dobId       |-> groupIndex,
    removeShown |-> TRUE,
    legalname   |-> Or3(Prop(child, "legalName"), Prop(child, "legalname"),
                        Prop(child, "name")),
    displayname |-> IF HasDisplayName
                    THEN Or3(Or3(Prop(child, "displayName"),
                                 Prop(child, "displayname"),
                                 Prop(child, "displayName")),
                             Prop(child, "nick_name"), Prop(child, "nickname"))
                    ELSE Empty,
    dob         |-> setupDatePicker(prepopDate(child)),
    errors      |-> <<>> ]

\* The element addChildGroup builds for position groupIndex
NewGroup(groupIndex, child) ==
  [ index       |-> groupIndex,
    header      |-> groupIndex,
    nameId      |-> groupIndex,
    displayId   |-> IF HasDisplayName THEN groupIndex ELSE 0,
    dobId       |-> groupIndex,
    removeShown |-> groupIndex # 1,
    legalname   |-> Or3(Prop(child, "legalName"), Prop(child, "legalname"),
                        Prop(child, "name")),
    displayname |-> IF HasDisplayName
                    THEN Or3(Or3(Prop(child, "displayName"),
                                 Prop(child, "displayname"),
                                 Prop(child, "displayName")),
                             Prop(child, "nick_name"), Prop(child, "nickname"))
                    ELSE Empty,
    dob         |-> setupDatePicker(prepopDate(child)),
    errors      |-> <<>> ]

\* addChildGroup(child): the group is appended to the container at line 242,
\* after `child.legalName` has been read (a null child throws a TypeError at
\* line 172) and after `dobHint` has been appended to it (line 239).
addChildGroup(kids, child) ==
  IF IsNull(child) \/ ~env.dobHint
  THEN [threw |-> TRUE, kids |-> kids]
  ELSE [threw |-> FALSE, kids |-> Append(kids, NewGroup(Len(kids) + 1, child))]

\* A reindexChildren that leaves every label as it was
reindexChildren_Stale(kids) == kids

\* A reindexChildren that numbers from the label the first group already has
reindexChildren_Carry(kids) ==
  [i \in 1..Len(kids) |->
     LET n == kids[1].index + i
     IN  [kids[i] EXCEPT !.index = n, !.header = n, !.nameId = n,
                         !.displayId = IF kids[i].displayId # 0 THEN n ELSE 0,
                         !.dobId = n, !.removeShown = (n # 1)]]

\* reindexChildren(): every group relabelled by its position
reindexChildren(kids) ==
  [i \in 1..Len(kids) |->
     [kids[i] EXCEPT !.index = i, !.header = i, !.nameId = i,
                     !.displayId = IF kids[i].displayId # 0 THEN i ELSE 0,
                     !.dobId = i, !.removeShown = (i # 1)]]

\* childrenContainer.removeChild(group)
RemoveAt(kids, k) ==
  [i \in 1..(Len(kids) - 1) |-> IF i < k THEN kids[i] ELSE kids[i + 1]]

\* A Remove handler that takes the group out and relabels nothing
removeChild_NoReindex(kids, k) == RemoveAt(kids, k)
\* The click handler of a group's Remove button, lines 228-231
removeChild(kids, k) == reindexChildren(RemoveAt(kids, k))

\* getChildData()
getChildData(kids) ==
  [i \in 1..Len(kids) |->
     IF HasDisplayName
     THEN [legalname |-> Trim(kids[i].legalname),
           displayname |-> Trim(kids[i].displayname),
           dob |-> kids[i].dob]
     ELSE [legalname |-> Trim(kids[i].legalname), dob |-> kids[i].dob]]

---------------------------------------------------------------------------
(* Validation and text                                                     *)

\* A check that asks returning customers for the name as well
validateParentNameIfNeeded_Always == Trim(parentName) # Empty
\* validateParentNameIfNeeded()
validateParentNameIfNeeded == isExistingCustomer \/ Trim(parentName) # Empty

\* dobDate > twoYearsAgo, where new Date('yyyy-mm-dd') is midnight UTC of
\* that day and twoYearsAgo is local midnight: on the limit day itself the
\* text's instant is the later one exactly when local time is ahead of UTC.
AfterTwoYearsAgo(dob) ==
  \/ DateLess(twoYearsAgoDate, DateOf(dob))
  \/ DateOf(dob) = twoYearsAgoDate /\ env.tzEast

\* isNaN(new Date(value).getTime())
IsInvalidDate(dob) ==
  \/ dob.fmt # "ymd"
  \/ dob.b \notin 1..12
  \/ dob.c \notin 1..31

\* The checks of one group without the one on the legal name
GroupValid_AnyName(g) ==
  /\ g.dob # NoDate
  /\ ~IsInvalidDate(g.dob)
  /\ ~AfterTwoYearsAgo(g.dob)

\* validateChildren, lines 290-320: the checks of one group
GroupValid(g) ==
  /\ Trim(g.legalname) # Empty
  /\ g.dob # NoDate
  /\ ~IsInvalidDate(g.dob)
  /\ ~AfterTwoYearsAgo(g.dob)

\* The .child-error span validateChildren appends to one group, lines 294-318
GroupErrors(g) ==
  IF Trim(g.legalname) = Empty \/ g.dob = NoDate
  THEN << "Please enter legal name and date of birth." >>
  ELSE IF IsInvalidDate(g.dob) THEN << "Please select a valid date." >>
  ELSE IF AfterTwoYearsAgo(g.dob) THEN << "Child must be at least 2 years old." >>
  ELSE <<>>

\* A validation that leaves the spans of earlier runs where they are
RemoveChildErrors_Not(kids) == kids
\* querySelectorAll('.child-error').forEach(el => el.remove()), line 278
RemoveChildErrors(kids) ==
  [i \in 1..Len(kids) |-> [kids[i] EXCEPT !.errors = <<>>]]

\* validateChildren(): with no group it adds an empty one and fails
validateChildren(kids) ==
  LET cleared == RemoveChildErrors(kids)
  IN  IF Len(kids) = 0
      THEN LET r == addChildGroup(cleared, <<>>)
           IN  [valid |-> FALSE, threw |-> r.threw, kids |-> r.kids]
      ELSE [valid |-> \A i \in 1..Len(kids) : GroupValid(kids[i]),
            threw |-> FALSE,
            kids |-> [i \in 1..Len(kids) |->
                        [cleared[i] EXCEPT !.errors = @ \o GroupErrors(kids[i])]]]

RECURSIVE Join(_, _)
\* Array.prototype.join
Join(texts, sep) ==
  IF Len(texts) = 0 THEN Empty
  ELSE IF Len(texts) = 1 THEN texts[1]
  ELSE texts[1] \o sep \o Join(Tail(texts), sep)

\* A template that writes the parentheses whether or not a display name is held
ChildNameText_AlwaysParen(c) ==
  c.legalname \o <<" ", "(">>
    \o (IF HasDisplayName THEN c.displayname ELSE Empty) \o <<")">>
\* The name composeConsentText gives one child
ChildNameText(c) ==
  LET legalName == IF c.legalname # Empty THEN c.legalname ELSE <<"undefined">>
  IN  IF HasDisplayName
      THEN IF c.displayname # Empty
           THEN legalName \o <<" ", "(">> \o c.displayname \o <<")">>
           ELSE IF c.legalname # Empty THEN c.legalname ELSE Empty
      ELSE IF c.legalname # Empty THEN c.legalname ELSE Empty

\* composeConsentText(parentName, children)
composeConsentText(name, data) ==
  LET childNames == Join([i \in 1..Len(data) |-> ChildNameText(data[i])],
                         <<",", " ">>)
  IN  <<"I, ">> \o name \o <<", as the parent/guardian of ">> \o childNames
        \o <<", hereby give consent ...">>

---------------------------------------------------------------------------
(* The signature pad                                                       *)

NoStrokes == <<>>
\* An isEmpty() that never reports an empty pad
SigIsEmpty_Never(p) == p # p
\* signaturePad.isEmpty()
SigIsEmpty(p) == p = NoStrokes
\* signaturePad.clear()
SigClear(p) == NoStrokes
\* A fromData() that draws nothing on the pad it is given
SigFromData_Drops(p, data) == p
\* signaturePad.fromData(data)
SigFromData(p, data) == data

\* resizeCanvas(): toData, resize, clear, fromData
resizeCanvas(p) == LET data == p IN SigFromData(SigClear(p), data)

---------------------------------------------------------------------------
(* What a handler shows and sends                                          *)

NoReq == [kind |-> "none", body |-> Empty]
\* alert: the text of the alert() raised, shown: the inline error displayed,
\* text: the consent text rendered, req: the request issued, threw: whether
\* the handler ended in an uncaught exception
Quiet == [alert |-> Empty, shown |-> "none", text |-> Empty, req |-> NoReq,
          threw |-> FALSE]

AlertSignature == <<"Please provide your signature before finishing.">>
AlertMobileMissing == <<"Mobile number is missing. Please go back and enter your mobile number.">>
AlertDuplicate == <<"Form Already Submitted Today ...">>
AlertIssue == <<"There was an issue submitting the consent. Please try again.">>
AlertUnknown == <<"Unknown error. Please try again.">>
AlertFailed(message) ==
  <<"Submission failed: ">> \o (IF message # Empty THEN message ELSE AlertUnknown)
\* consent.js interpolates err.message, part_000 shows a fixed text
AlertError ==
  IF env.build = "consent.js"
  THEN <<"An error occurred while submitting your consent: ", "err.message",
         ". Please try again later.">>
  ELSE <<"An error occurred while submitting your consent. Please try again later.">>

\* message.includes('already submitted'), a message being a sequence of phrases
IncludesAlreadySubmitted(message) ==
  \E i \in 1..Len(message) : message[i] = "already submitted"

\* encodeURIComponent: letters and digits stay, everything else is escaped
EncodeURIComponent(text) ==
  [i \in 1..Len(text) |-> IF text[i] \in Digits \cup {"x"} THEN text[i] ELSE "%.."]

Form == [page |-> "consent.html", mobile |-> Empty]
OnForm == location.page = "consent.html"

\* A showStep that activates the step after the one asked for
showStep_Next(stepIndex) ==
  IF stepIndex \in {1, 2} THEN stepIndex + 1 ELSE stepIndex
\* showStep(stepIndex): the step left with the class `active`, 0 for none
showStep(stepIndex) == IF stepIndex \in {1, 2, 3} THEN stepIndex ELSE 0

---------------------------------------------------------------------------
(* Inputs                                                                  *)

\* What the user may type into the mobile field
RawMobiles ==
  { <<"9", "8", "7", "6", "5", "-", "4", "3", "2", "1", "0", "x", "7">> }

ParentNameInputs == { <<" ">>, <<"A">> }
LegalNameInputs == { <<"B">> }
DisplayNameInputs == { <<"N">> }

OldDate == <<2020, 1, 2>>
YoungDate == <<2023, 6, 16>>

\* The days the date picker offers: none after maxDate
DobChoices == { d \in {OldDate, YoungDate} : ~DateLess(twoYearsAgoDate, d) }

\* The child objects a lookup response may carry
ChildYmd == [legalname |-> <<"B">>, dob |-> Ymd(OldDate)]
ChildNoDob == [legalName |-> <<"B">>, displayName |-> <<"N">>]
ChildDmy == [name |-> <<"B">>, nickname |-> <<"N">>, dob |-> Dmy(OldDate)]
ChildYoung == [legalname |-> <<"B">>, dob |-> Ymd(YoungDate)]

\* The `children` arrays a lookup response may carry
PrefillLists ==
  { <<>>, <<ChildYmd, ChildNoDob>>, <<ChildDmy, ChildYoung>>, <<ChildYmd, JsonNull>> }

\* The `data` of a lookup response: parentName and children, either absent
PrefillData ==
  LET lists == { <<>> } \cup { [children |-> cs] : cs \in PrefillLists }
  IN  { [parentName |-> <<"A">>] @@ l : l \in lists }
      \cup { <<>>, [children |-> <<ChildYmd, ChildNoDob>>] }

\* The data that also come unwrapped
DirectData ==
  { <<>>, [parentName |-> <<"A">>, children |-> <<ChildYmd, ChildNoDob>>] }

\* The JSON bodies of GET /api/consent: null, exists false, and exists true
\* in the wrapped ({exists, data}) and the direct shape
LookupBodies ==
  { JsonNull, [exists |-> FALSE] }
  \cup { [exists |-> TRUE, data |-> d] : d \in PrefillData }
  \cup { [exists |-> TRUE] @@ d : d \in DirectData }

\* How a lookup request settles
LookupResponses ==
  { [kind |-> "neterr", body |-> JsonNull],
    [kind |-> "notok", body |-> JsonNull],
    [kind |-> "badjson", body |-> JsonNull] }
  \cup { [kind |-> "json", body |-> b] : b \in LookupBodies }

\* How a submission request settles
PostBodies ==
  { JsonNull,
    [success |-> TRUE],
    [success |-> FALSE, message |-> <<"Consent ", "already submitted", " today">>],
    [success |-> FALSE, message |-> <<"Server busy">>] }

PostResponses ==
  { [kind |-> "neterr", body |-> JsonNull],
    [kind |-> "notok", body |-> JsonNull],
    [kind |-> "badjson", body |-> JsonNull] }
  \cup { [kind |-> "json", body |-> b] : b \in PostBodies }

---------------------------------------------------------------------------
(* The prefill                                                             *)

RECURSIVE AddAll(_, _)
\* data.children.forEach(child => addChildGroup(child)), up to the first throw
AddAll(kids, cs) ==
  IF cs = <<>> THEN [threw |-> FALSE, kids |-> kids]
  ELSE LET r == addChildGroup(kids, Head(cs))
       IN  IF r.threw THEN r ELSE AddAll(r.kids, Tail(cs))

\* populateExistingData(data)
populateExistingData(name, kids, data) ==
  LET name2 == IF Prop(data, "parentName") # Empty THEN data["parentName"] ELSE name
  IN  IF "children" \in DOMAIN data
      THEN LET r == AddAll(<<>>, data["children"])
           IN  [threw |-> r.threw, parentName |-> name2, kids |-> r.kids]
      ELSE [threw |-> FALSE, parentName |-> name2, kids |-> kids]

\* fetchExistingConsent(mobile), from the arrival of the response on
fetchExistingConsent(resp) ==
  LET asIs == [isExistingCustomer |-> isExistingCustomer,
               parentName |-> parentName, kids |-> children]
  IN  IF resp.kind = "notok" THEN asIs
      ELSE IF resp.kind \in {"neterr", "badjson"}
           THEN [asIs EXCEPT !.isExistingCustomer = FALSE]
      ELSE IF IsNull(resp.body) \/ ~resp.body["exists"]
           THEN [asIs EXCEPT !.isExistingCustomer = FALSE]
      ELSE LET data == IF "data" \in DOMAIN resp.body
                       THEN resp.body["data"] ELSE resp.body
               r == populateExistingData(parentName, children, data)
           IN  [isExistingCustomer |-> ~r.threw,
                parentName |-> r.parentName, kids |-> r.kids]

---------------------------------------------------------------------------
(* The serverless proxies api/consent.js and api/metrics.js                *)

\* A URL is a sequence of pieces: path segments, "?" and query texts
Undefined == [undefined |-> TRUE]

\* The positions of "?" in a URL
QuestionMarks(url) == { i \in 1..Len(url) : url[i] = "?" }

\* The least member of a non-empty set of positions
Least(S) == CHOOSE i \in S : \A j \in S : i <= j

\* url.split('?')[0]
SplitPart0(url) ==
  IF QuestionMarks(url) = {} THEN url
  ELSE SubSeq(url, 1, Least(QuestionMarks(url)) - 1)

\* url.split('?')[1], read only when the URL includes a "?"
SplitPart1(url) ==
  LET first == Least(QuestionMarks(url))
      later == { i \in QuestionMarks(url) : i > first }
      stop  == IF later = {} THEN Len(url) + 1 ELSE Least(later)
  IN  SubSeq(url, first + 1, stop - 1)

\* String.prototype.replace(piece, ''): the first occurrence only
RECURSIVE ReplaceFirst(_, _)
ReplaceFirst(path, piece) ==
  IF path = <<>> THEN <<>>
  ELSE IF Head(path) = piece THEN Tail(path)
  ELSE <<Head(path)>> \o ReplaceFirst(Tail(path), piece)

\* url.toString() of a URL with this base, path remainder and search
UrlToString(base, rest, search) ==
  <<base>> \o rest \o (IF search = Empty THEN Empty ELSE <<"?">> \o search)

BACKEND_URL == "http://backend/api/consent"
BASE_URL == "http://backend/api/v1/metrics"

\* The URL the handler fetches
TargetUrl(h, req) ==
  LET search == IF QuestionMarks(req.url) # {} THEN SplitPart1(req.url) ELSE Empty
  IN  IF h = "consent"
      THEN UrlToString(BACKEND_URL, Empty, search)
      ELSE UrlToString(BASE_URL,
                       ReplaceFirst(SplitPart0(req.url), "/api/metrics"), search)

\* JSON.stringify(value): undefined stays undefined
JsonStringify(value) ==
  IF value = Undefined THEN Undefined ELSE [json |-> value]

\* The body option of the fetch call
FetchBody(h, req) ==
  IF h = "consent" /\ req.method # "GET" THEN JsonStringify(req.body)
  ELSE Undefined

\* The method option of the fetch call
FetchMethod(h, req) == IF h = "consent" THEN req.method ELSE "GET"

\* The three setHeader calls
CorsHeaders(h) ==
  [origin  |-> "*",
   methods |-> IF h = "consent" THEN "GET, POST, OPTIONS" ELSE "GET, OPTIONS",
   headers |-> "Content-Type"]

NoRequest == [method |-> "none", url |-> Empty, body |-> Undefined]
NoFetch == [sent |-> FALSE, url |-> Empty, method |-> "none", body |-> Undefined]
NoReply == [sent |-> FALSE, status |-> 0, body |-> Undefined, cors |-> Undefined]
ProxyIdle ==
  [phase |-> "idle", handler |-> "none", req |-> NoRequest, fetch |-> NoFetch,
   reply |-> NoReply]

ProxyFailed == [error |-> "Proxy request failed"]

\* What a client may send
ProxyHandlers == {"consent", "metrics"}
ProxyMethods == {"GET", "POST", "OPTIONS"}
ProxyPaths ==
  [consent |-> {<<"/api/consent">>},
   metrics |-> {<<"/api/metrics">>, <<"/api/metrics", "/average-wait-times">>}]
ProxyQueries ==
  { Empty, <<"?">>, <<"?", "mobile=9876543210">>,
    <<"?", "zoneId=1", "?", "x=2">> }
ProxyBodies == { Undefined, [mobile |-> <<"9">>] }
ProxyRequests(h) ==
  { [method |-> m, url |-> p \o q, body |-> b] :
      m \in ProxyMethods, p \in ProxyPaths[h], q \in ProxyQueries,
      b \in ProxyBodies }

\* What the backend may answer: a JSON body, a body that is not JSON, nothing
BackendAnswers ==
  { [kind |-> "json", status |-> 200, body |-> [exists |-> TRUE]],
    [kind |-> "json", status |-> 404, body |-> [message |-> "not found"]],
    [kind |-> "json", status |-> 200, body |-> JsonNull],
    [kind |-> "text", status |-> 502, body |-> Undefined],
    [kind |-> "neterr", status |-> 0, body |-> Undefined] }

\* A request arrives at handler h: lines 1-28, up to the await of fetch
ProxyReceive(h, req) ==
  /\ proxy.phase # "awaiting"
  /\ proxy' =
       IF req.method = "OPTIONS"
       THEN [phase |-> "replied", handler |-> h, req |-> req, fetch |-> NoFetch,
             reply |-> [sent |-> TRUE, status |-> 200, body |-> Undefined,
                        cors |-> CorsHeaders(h)]]
       ELSE [phase |-> "awaiting", handler |-> h, req |-> req,
             fetch |-> [sent |-> TRUE, url |-> TargetUrl(h, req),
                        method |-> FetchMethod(h, req),
                        body |-> FetchBody(h, req)],
             reply |-> NoReply]
  /\ UNCHANGED <<queue, metrics, env, step, mobile, parentName, parentReadOnly,
                 isExistingCustomer, children, pad, finishDisabled, lookups,
                 posts, location, out>>

\* The backend answers, or the fetch fails: response.json() and the reply
ProxySettle(answer) ==
  /\ proxy.phase = "awaiting"
  /\ proxy' =
       [proxy EXCEPT
          !.phase = "replied",
          !.reply = IF answer.kind = "json"
                    THEN [sent |-> TRUE, status |-> answer.status,
                          body |-> answer.body, cors |-> CorsHeaders(proxy.handler)]
                    ELSE [sent |-> TRUE, status |-> 500, body |-> ProxyFailed,
                          cors |-> CorsHeaders(proxy.handler)]]
  /\ UNCHANGED <<queue, metrics, env, step, mobile, parentName, parentReadOnly,
                 isExistingCustomer, children, pad, finishDisabled, lookups,
                 posts, location, out>>

NextProxy ==
  \/ \E h \in ProxyHandlers : \E req \in ProxyRequests(h) : ProxyReceive(h, req)
  \/ \E answer \in BackendAnswers : ProxySettle(answer)

---------------------------------------------------------------------------
(* The queue page and the analytics page as they load                    *)

MaxTimers == 2
MaxQueueRequests == 2
MaxQueueIssued == 3

\* The options of zoneSelect; "" is the placeholder option
Zones == {"", "zoneA", "zoneB"}

\* Before any request: currentZoneId and refreshIntervalId are null (here "null"
\* and 0), no interval runs, the lists are as the page markup has them
QueueLoaded ==
  [zone |-> "", checked |-> FALSE, currentZoneId |-> "null",
   refreshIntervalId |-> 0, timers |-> {}, reqs |-> <<>>, issued |-> 0,
   lists |-> [kind |-> "initial", zoneId |-> "null", seq |-> 0],
   error |-> "none"]

MaxMetricsRuns == 1

\* waitTimesContent, missedRidesContent, rideDurationContent
Panels == 1..3

\* How one of the three requests settles: a body with rows, a body without,
\* the JSON value null, a status that is not OK, or no response at all
MetricsAnswers == {"rows", "empty", "null", "notok", "neterr"}

\* The page before the first click: the markup's panels, no error shown
MetricsLoaded ==
  [panels |-> [p \in Panels |-> "initial"], error |-> FALSE, runs |-> <<>>]

---------------------------------------------------------------------------
(* The wizard                                                              *)

\* The page as the DOMContentLoaded handler leaves it
Loaded ==
  /\ step = 1
  /\ mobile = Empty
  /\ parentName = Empty
  /\ parentReadOnly = FALSE
  /\ isExistingCustomer = FALSE
  /\ children = <<>>
  /\ pad = NoStrokes
  /\ finishDisabled = FALSE
  /\ lookups = <<>>
  /\ posts = <<>>
  /\ location = Form
  /\ out = Quiet
  /\ proxy = ProxyIdle
  /\ queue = QueueLoaded
  /\ metrics = MetricsLoaded

Init == env \in Envs /\ Loaded

DropAt(q, i) == [j \in 1..(Len(q) - 1) |-> IF j < i THEN q[j] ELSE q[j + 1]]

\* The input event of the mobile field, lines 33-40
MobileInput(raw) ==
  /\ OnForm /\ step = 1
  /\ mobile' = SanitizeMobile(raw)
  /\ isExistingCustomer' = FALSE
  /\ parentReadOnly' = FALSE
  /\ parentName' = Empty
  /\ children' = <<>>
  /\ out' = Quiet
  /\ UNCHANGED <<queue, metrics, proxy, env, step, pad, finishDisabled, lookups, posts, location>>

\* The click on nextToDetails, up to its await
NextToDetailsClick ==
  /\ OnForm /\ step = 1
  /\ IF ~validateMobile(mobile)
     THEN /\ out' = [Quiet EXCEPT !.shown = "mobile"]
          /\ UNCHANGED <<isExistingCustomer, parentReadOnly, parentName,
                         children, lookups>>
     ELSE /\ Len(lookups) < MaxLookups
          /\ isExistingCustomer' = FALSE
          /\ parentReadOnly' = FALSE
          /\ parentName' = Empty
          /\ children' = <<>>
          /\ lookups' = Append(lookups, Trim(mobile))
          /\ out' = [Quiet EXCEPT !.req = [kind |-> "GET", body |-> Trim(mobile)]]
  /\ UNCHANGED <<queue, metrics, proxy, env, step, mobile, pad, finishDisabled, posts, location>>

\* A continuation that shows Details only while the mobile step is shown
StepAfterLookup_FromMobileOnly(threw) ==
  IF threw \/ step # 1 THEN step ELSE showStep(2)
\* The step the continuation of the Next click leaves shown: showStep(2) at
\* line 432, unless addChildGroup threw before it
StepAfterLookup(threw) == IF threw THEN step ELSE showStep(2)

\* The response of lookup i arrives: the rest of fetchExistingConsent and of
\* the click handler that awaited it, lines 394-432
LookupSettle(i, resp) ==
  /\ OnForm
  /\ i \in 1..Len(lookups)
  /\ LET f == fetchExistingConsent(resp)
         r == IF Len(f.kids) = 0 THEN addChildGroup(f.kids, <<>>)
              ELSE [threw |-> FALSE, kids |-> f.kids]
     IN  /\ isExistingCustomer' = f.isExistingCustomer
         /\ parentName' = f.parentName
         /\ parentReadOnly' = f.isExistingCustomer
         /\ children' = r.kids
         /\ step' = StepAfterLookup(r.threw)
         /\ out' = [Quiet EXCEPT !.threw = r.threw]
  /\ lookups' = DropAt(lookups, i)
  /\ UNCHANGED <<queue, metrics, proxy, env, mobile, pad, finishDisabled, posts, location>>

\* The click on addChild, while the container holds fewer than `limit` groups
AddChildUpTo(limit) ==
  /\ OnForm /\ step = 2
  /\ Len(children) < limit
  /\ LET r == addChildGroup(children, <<>>)
     IN  /\ children' = r.kids
         /\ out' = [Quiet EXCEPT !.threw = r.threw]
  /\ UNCHANGED <<queue, metrics, proxy, env, step, mobile, parentName, parentReadOnly,
                 isExistingCustomer, pad, finishDisabled, lookups, posts,
                 location>>

AddChildClick == AddChildUpTo(MaxChildren)

\* The click on the Remove button of group k, which is there to click only
\* while it is displayed
RemoveChildClick(k) ==
  /\ OnForm /\ step = 2
  /\ k \in 1..Len(children)
  /\ children[k].removeShown
  /\ children' = removeChild(children, k)
  /\ out' = Quiet
  /\ UNCHANGED <<queue, metrics, proxy, env, step, mobile, parentName, parentReadOnly,
                 isExistingCustomer, pad, finishDisabled, lookups, posts,
                 location>>

\* The user types into the parent-name field, unless it is read-only
EditParentName(v) ==
  /\ OnForm /\ step = 2
  /\ ~parentReadOnly
  /\ parentName' = v
  /\ out' = Quiet
  /\ UNCHANGED <<queue, metrics, proxy, env, step, mobile, parentReadOnly, isExistingCustomer,
                 children, pad, finishDisabled, lookups, posts, location>>

\* The user types a legal name into group k
EditLegalName(k, v) ==
  /\ OnForm /\ step = 2
  /\ k \in 1..Len(children)
  /\ children' = [children EXCEPT ![k].legalname = v]
  /\ out' = Quiet
  /\ UNCHANGED <<queue, metrics, proxy, env, step, mobile, parentName, parentReadOnly,
                 isExistingCustomer, pad, finishDisabled, lookups, posts,
                 location>>

\* The user types a display name into group k (consent.js only)
EditDisplayName(k, v) ==
  /\ OnForm /\ step = 2
  /\ HasDisplayName
  /\ k \in 1..Len(children)
  /\ children' = [children EXCEPT ![k].displayname = v]
  /\ out' = Quiet
  /\ UNCHANGED <<queue, metrics, proxy, env, step, mobile, parentName, parentReadOnly,
                 isExistingCustomer, pad, finishDisabled, lookups, posts,
                 location>>

\* The user picks a day in the date picker of group k
PickDob(k, d) ==
  /\ OnForm /\ step = 2
  /\ k \in 1..Len(children)
  /\ children' = [children EXCEPT ![k].dob = Ymd(d)]
  /\ out' = Quiet
  /\ UNCHANGED <<queue, metrics, proxy, env, step, mobile, parentName, parentReadOnly,
                 isExistingCustomer, pad, finishDisabled, lookups, posts,
                 location>>

\* The click on backToMobile
BackToMobileClick ==
  /\ OnForm /\ step = 2
  /\ isExistingCustomer' = FALSE
  /\ parentReadOnly' = FALSE
  /\ parentName' = Empty
  /\ children' = <<>>
  /\ step' = showStep(1)
  /\ out' = Quiet
  /\ UNCHANGED <<queue, metrics, proxy, env, mobile, pad, finishDisabled, lookups, posts, location>>

\* The click on nextToConsent
NextToConsentClick ==
  /\ OnForm /\ step = 2
  /\ IF ~validateParentNameIfNeeded
     THEN /\ out' = [Quiet EXCEPT !.shown = "parentName"]
          /\ UNCHANGED <<step, children, pad>>
     ELSE LET v == validateChildren(children)
          IN  IF ~v.valid
              THEN /\ children' = v.kids
                   /\ out' = [Quiet EXCEPT !.shown = IF v.threw THEN "none"
                                                     ELSE "children",
                                           !.threw = v.threw]
                   /\ UNCHANGED <<step, pad>>
              ELSE /\ step' = showStep(3)
                   /\ pad' = resizeCanvas(pad)
                   /\ out' = [Quiet EXCEPT !.text =
                               composeConsentText(Trim(parentName),
                                                  getChildData(children))]
                   /\ children' = v.kids
  /\ UNCHANGED <<queue, metrics, proxy, env, mobile, parentName, parentReadOnly, isExistingCustomer,
                 finishDisabled, lookups, posts, location>>

\* A Back handler that wipes the signature as it leaves Consent
BackToDetailsClick_ClearsPad ==
  /\ OnForm /\ step = 3
  /\ step' = showStep(2)
  /\ pad' = SigClear(pad)
  /\ out' = Quiet
  /\ UNCHANGED <<queue, metrics, proxy, env, mobile, parentName, parentReadOnly,
                 isExistingCustomer, children, finishDisabled, lookups, posts,
                 location>>

\* The click on backToDetails
BackToDetailsClick ==
  /\ OnForm /\ step = 3
  /\ step' = showStep(2)
  /\ out' = Quiet
  /\ UNCHANGED <<queue, metrics, proxy, env, mobile, parentName, parentReadOnly, isExistingCustomer,
                 children, pad, finishDisabled, lookups, posts, location>>

\* The user draws on the signature canvas
DrawSignature ==
  /\ OnForm /\ step = 3
  /\ pad' = <<"stroke">>
  /\ out' = Quiet
  /\ UNCHANGED <<queue, metrics, proxy, env, step, mobile, parentName, parentReadOnly,
                 isExistingCustomer, children, finishDisabled, lookups, posts,
                 location>>

\* The click on clearSignature
ClearSignatureClick ==
  /\ OnForm /\ step = 3
  /\ pad' = SigClear(pad)
  /\ out' = Quiet
  /\ UNCHANGED <<queue, metrics, proxy, env, step, mobile, parentName, parentReadOnly,
                 isExistingCustomer, children, finishDisabled, lookups, posts,
                 location>>

\* The resize event of the window
WindowResize ==
  /\ OnForm
  /\ pad' = resizeCanvas(pad)
  /\ out' = Quiet
  /\ UNCHANGED <<queue, metrics, proxy, env, step, mobile, parentName, parentReadOnly,
                 isExistingCustomer, children, finishDisabled, lookups, posts,
                 location>>

\* A handler that leaves the button enabled while it submits
DisabledWhileSubmitting_Not == FALSE
\* finishBtn.disabled = true, line 527
DisabledWhileSubmitting == TRUE

\* The click on finishBtn, which a disabled button does not receive, up to
\* its await
FinishClick ==
  /\ OnForm /\ step = 3
  /\ ~finishDisabled
  /\ IF SigIsEmpty(pad)
     THEN /\ out' = [Quiet EXCEPT !.alert = AlertSignature]
          /\ UNCHANGED <<finishDisabled, posts>>
     ELSE IF env.build = "consent.js" /\ Trim(mobile) = Empty
     THEN /\ out' = [Quiet EXCEPT !.alert = AlertMobileMissing]
          /\ UNCHANGED <<finishDisabled, posts>>
     ELSE /\ Len(posts) < MaxPosts
          /\ finishDisabled' = DisabledWhileSubmitting
          /\ posts' = Append(posts, [mobile |-> Trim(mobile)])
          /\ out' = [Quiet EXCEPT !.req =
                       [kind |-> "POST",
                        body |-> [parentName |-> Trim(parentName),
                                  mobile |-> Trim(mobile),
                                  children |-> getChildData(children),
                                  signature |-> pad]]]
  /\ UNCHANGED <<queue, metrics, proxy, env, step, mobile, parentName, parentReadOnly,
                 isExistingCustomer, children, pad, lookups, location>>

\* A handler that redirects on any body that parses
PostSucceeded_AnyBody(resp) == resp.kind = "json"

\* A handler that redirects on any JSON object
PostSucceeded_AnyJson(resp) ==
  resp.kind = "json" /\ ~IsNull(resp.body)

\* Whether the handler redirects on this response
PostSucceeded(resp) ==
  resp.kind = "json" /\ ~IsNull(resp.body) /\ resp.body["success"]

\* The alert the handler raises on this response, lines 542-576
PostAlert(resp) ==
  IF PostSucceeded(resp) THEN Empty
  ELSE IF resp.kind # "json" THEN AlertError
  ELSE IF env.build = "part_000" THEN AlertIssue
  \* result.message of a null result throws inside the try
  ELSE IF IsNull(resp.body) THEN AlertError
  ELSE IF IncludesAlreadySubmitted(Prop(resp.body, "message")) THEN AlertDuplicate
  ELSE AlertFailed(Prop(resp.body, "message"))

\* A handler that restores the button in its catch block only
DisabledAfterSettle_CatchOnly(resp) == resp.kind = "json"
\* finishBtn.disabled as the finally block leaves it, whatever the response;
\* the same two statements restore the label 'Finish'
DisabledAfterSettle(resp) == FALSE

\* The response of submission i arrives: the rest of the click handler
PostSettle(i, resp) ==
  /\ OnForm
  /\ i \in 1..Len(posts)
  /\ IF PostSucceeded(resp)
     THEN \* window.location.href = ...: the document and all it held is unloaded
          /\ location' = [page |-> "complete.html",
                          mobile |-> EncodeURIComponent(posts[i].mobile)]
          /\ step' = 1
          /\ mobile' = Empty
          /\ parentName' = Empty
          /\ parentReadOnly' = FALSE
          /\ isExistingCustomer' = FALSE
          /\ children' = <<>>
          /\ pad' = NoStrokes
          /\ lookups' = <<>>
          /\ posts' = <<>>
     ELSE /\ posts' = DropAt(posts, i)
          /\ UNCHANGED <<location, step, mobile, parentName, parentReadOnly,
                         isExistingCustomer, children, pad, lookups>>
  /\ out' = [Quiet EXCEPT !.alert = PostAlert(resp)]
  /\ finishDisabled' = DisabledAfterSettle(resp)
  /\ UNCHANGED <<queue, metrics, proxy, env>>

Next ==
  \/ \E raw \in RawMobiles : MobileInput(raw)
  \/ NextToDetailsClick
  \/ \E i \in 1..MaxLookups, resp \in LookupResponses : LookupSettle(i, resp)
  \/ AddChildClick
  \/ \E k \in 1..MaxChildren : RemoveChildClick(k)
  \/ \E v \in ParentNameInputs \cup {Empty} : EditParentName(v)
  \/ \E k \in 1..MaxChildren, v \in LegalNameInputs \cup {Empty} : EditLegalName(k, v)
  \/ \E k \in 1..MaxChildren, d \in DobChoices : PickDob(k, d)
  \/ BackToMobileClick
  \/ NextToConsentClick
  \/ BackToDetailsClick
  \/ DrawSignature
  \/ ClearSignatureClick
  \/ WindowResize
  \/ FinishClick
  \/ \E i \in 1..MaxPosts, resp \in PostResponses : PostSettle(i, resp)

Spec == Init /\ [][Next]_vars

---------------------------------------------------------------------------
(* The mobile step on its own: the user types, and clicks Next             *)

\* What the user may type: a leading character and a tail, among them the
\* texts 9876543210, 1234567890 and 98765432
MobileLeads == {"1", "5", "6", "9", "x"}
MobileTails ==
  { <<"8", "7", "6", "5", "4", "3", "2", "1", "0">>,
    <<"2", "3", "4", "5", "6", "7", "8", "9", "0">>,
    <<"8", "7", "6", "5", "4", "3", "2">>,
    <<"8", "7", "6", "5", "4", "3", "2", "1">>,
    <<"8", "7", "6", "5", "4", "3", "2", "1", "0", "1">>,
    <<"8", "7", "6", "5", " ", "4", "3", "2", "1", "0">>,
    <<"8", "7", "6", "5", "4", "3", "2", "1", "x">> }
MobileRaws == { <<h>> \o t : h \in MobileLeads, t \in MobileTails } \cup { <<" ">> }

NextMobile ==
  \/ \E raw \in MobileRaws : MobileInput(raw)
  \/ NextToDetailsClick

SpecMobile == Init /\ [][NextMobile]_vars

---------------------------------------------------------------------------
(* The child repeater on its own, with room for MaxRows groups, and with   *)
(* the display names typed as well as prefilled                            *)

RepeaterResponses ==
  { [kind |-> "json", body |-> [exists |-> FALSE]],
    [kind |-> "json",
     body |-> [exists |-> TRUE,
               data |-> [parentName |-> <<"A">>,
                         children |-> <<ChildYmd, ChildNoDob>>]]] }

AddChildRow == AddChildUpTo(MaxRows)

NextRepeater ==
  \/ \E raw \in RawMobiles : MobileInput(raw)
  \/ NextToDetailsClick
  \/ \E i \in 1..MaxLookups, resp \in RepeaterResponses : LookupSettle(i, resp)
  \/ AddChildRow
  \/ \E k \in 1..MaxRows : RemoveChildClick(k)
  \/ \E k \in 1..MaxRows, v \in LegalNameInputs \cup {Empty} : EditLegalName(k, v)
  \/ \E k \in 1..MaxRows, v \in DisplayNameInputs \cup {Empty} :
       EditDisplayName(k, v)
  \/ BackToMobileClick

SpecRepeater == Init /\ [][NextRepeater]_vars

---------------------------------------------------------------------------
(* The date rules on their own: the Details step on either side of UTC     *)

\* The days the date picker offers here: an early one and maxDate itself
DateChoices == { OldDate, twoYearsAgoDate }

InitDates == env \in DateEnvs /\ Loaded

NextDates ==
  \/ \E raw \in RawMobiles : MobileInput(raw)
  \/ NextToDetailsClick
  \/ \E i \in 1..MaxLookups, resp \in RepeaterResponses : LookupSettle(i, resp)
  \/ \E v \in ParentNameInputs \cup {Empty} : EditParentName(v)
  \/ \E k \in 1..MaxChildren, v \in LegalNameInputs \cup {Empty} : EditLegalName(k, v)
  \/ \E k \in 1..MaxChildren, d \in DateChoices : PickDob(k, d)
  \/ NextToConsentClick
  \/ BackToDetailsClick

SpecDates == InitDates /\ [][NextDates]_vars

---------------------------------------------------------------------------
(* The consent text on its own: names and display names of several children *)

\* Legal names that tell the records of a list apart
LegalNameTexts == LegalNameInputs \cup { <<"C">> }

NextText ==
  \/ \E raw \in RawMobiles : MobileInput(raw)
  \/ NextToDetailsClick
  \/ \E i \in 1..MaxLookups, resp \in RepeaterResponses : LookupSettle(i, resp)
  \/ AddChildClick
  \/ \E v \in ParentNameInputs : EditParentName(v)
  \/ \E k \in 1..MaxChildren, v \in LegalNameTexts : EditLegalName(k, v)
  \/ \E k \in 1..MaxChildren, v \in DisplayNameInputs \cup {Empty} :
       EditDisplayName(k, v)
  \/ \E k \in 1..MaxChildren : PickDob(k, OldDate)
  \/ NextToConsentClick
  \/ BackToDetailsClick

SpecText == Init /\ [][NextText]_vars

---------------------------------------------------------------------------
(* The mobile step with its lookups: numbers typed while a lookup is out   *)

\* What the user may type here: 9876543210 and three numbers that fail
EntryRaws ==
  RawMobiles \cup { <<"1", "2", "3", "4", "5", "6", "7", "8", "9", "0">>,
                    <<"9", "8", "7">>, <<"x">> }

NextEntry ==
  \/ \E raw \in EntryRaws : MobileInput(raw)
  \/ NextToDetailsClick
  \/ \E i \in 1..MaxLookups, resp \in LookupResponses : LookupSettle(i, resp)
  \/ BackToMobileClick

SpecEntry == Init /\ [][NextEntry]_vars

---------------------------------------------------------------------------
(* The proxies on their own: requests of any client, answers of the backend *)

SpecProxy == Init /\ [][NextProxy]_vars

---------------------------------------------------------------------------
(* The way to a submission: numbers typed while a lookup is out, then Finish *)

\* Answers that let the Details step pass as it arrives, or after one edit
SubmitResponses ==
  { [kind |-> "json", body |-> [exists |-> FALSE]],
    [kind |-> "json",
     body |-> [exists |-> TRUE,
               data |-> [parentName |-> <<"A">>, children |-> <<ChildYmd>>]]] }

NextSubmit ==
  \/ \E raw \in EntryRaws : MobileInput(raw)
  \/ NextToDetailsClick
  \/ \E i \in 1..MaxLookups, resp \in SubmitResponses : LookupSettle(i, resp)
  \/ NextToConsentClick
  \/ BackToDetailsClick
  \/ DrawSignature
  \/ FinishClick
  \/ \E i \in 1..MaxPosts, resp \in PostResponses : PostSettle(i, resp)

SpecSubmit == Init /\ [][NextSubmit]_vars

---------------------------------------------------------------------------
(* The shapes of a lookup answer: wrapped and direct, and the spellings of *)
(* a child's keys                                                          *)

\* One child, its legal name under key k and its display name under key n
ShapeChild(k, n) ==
  (k :> <<"B">>) @@ (n :> <<"N">>) @@ [dob |-> Ymd(OldDate)]

LegalNameKeys == {"legalName", "legalname", "name"}
DisplayNameKeys == {"displayName", "displayname"}

\* The data of an existing customer, the child's keys spelt each way
ShapeData ==
  { [parentName |-> <<"A">>, children |-> <<ShapeChild(k, n)>>] :
      k \in LegalNameKeys, n \in DisplayNameKeys }
  \cup { [parentName |-> <<"A">>], [children |-> <<ChildYmd, ChildNoDob>>] }

\* {exists: true, data: {...}} and {exists: true, ...}
Wrapped(d) == [kind |-> "json", body |-> [exists |-> TRUE, data |-> d]]
Direct(d) == [kind |-> "json", body |-> [exists |-> TRUE] @@ d]

ShapeResponses ==
  { Wrapped(d) : d \in ShapeData } \cup { Direct(d) : d \in ShapeData }
  \cup { [kind |-> "json", body |-> [exists |-> FALSE]] }

NextShapes ==
  \/ \E raw \in RawMobiles : MobileInput(raw)
  \/ NextToDetailsClick
  \/ \E i \in 1..MaxLookups, resp \in ShapeResponses : LookupSettle(i, resp)
  \/ AddChildClick
  \/ \E v \in ParentNameInputs : EditParentName(v)
  \/ \E k \in 1..MaxChildren, v \in LegalNameTexts \cup {Empty} : EditLegalName(k, v)
  \/ BackToMobileClick

SpecShapes == Init /\ [][NextShapes]_vars

---------------------------------------------------------------------------
(* The way to a submission, every request made being answered or failing   *)

PostSettles == \E i \in 1..MaxPosts, resp \in PostResponses : PostSettle(i, resp)

SpecSubmitLive == Init /\ [][NextSubmit]_vars /\ WF_vars(PostSettles)

---------------------------------------------------------------------------
(* The queue page unnamed/part_001 (queue.js)                              *)

\* The id forgotten and the interval left running
ClearRefresh_KeepsInterval(q) == [q EXCEPT !.refreshIntervalId = 0]
\* `Stop existing auto-refresh`: clearInterval(refreshIntervalId) and
\* refreshIntervalId = null, if it is set
ClearRefresh(q) ==
  IF q.refreshIntervalId # 0
  THEN [q EXCEPT !.timers = @ \ {q.refreshIntervalId}, !.refreshIntervalId = 0]
  ELSE q

\* A stopAutoRefresh that leaves the interval running
stopAutoRefresh_KeepsInterval(q) == q
\* stopAutoRefresh()
stopAutoRefresh(q) ==
  IF q.refreshIntervalId # 0
  THEN [q EXCEPT !.timers = @ \ {q.refreshIntervalId}, !.refreshIntervalId = 0]
  ELSE q

\* setInterval(...): an id no running interval has
NewIntervalId(q) ==
  CHOOSE id \in 1..(MaxTimers + 1) :
    id \notin q.timers /\ \A j \in 1..(id - 1) : j \in q.timers

\* startAutoRefresh()
startAutoRefresh(q) ==
  IF q.refreshIntervalId # 0 THEN q
  ELSE [q EXCEPT !.timers = @ \cup {NewIntervalId(q)},
                 !.refreshIntervalId = NewIntervalId(q)]

\* fetchQueueData() up to its await: hideError, showLoading, the request
fetchQueueData(q) ==
  IF q.currentZoneId = "null" THEN q
  ELSE [q EXCEPT !.error = "none",
                 !.lists = [kind |-> "loading", zoneId |-> "null", seq |-> 0],
                 !.issued = @ + 1,
                 !.reqs = Append(@, [zoneId |-> q.currentZoneId, seq |-> q.issued + 1])]

\* Room for one more request and one more interval
QueueRoom ==
  /\ Len(queue.reqs) < MaxQueueRequests
  /\ queue.issued < MaxQueueIssued
  /\ Cardinality(queue.timers) < MaxTimers

\* What the queue page and the analytics page never touch
WizardIdle ==
  UNCHANGED <<proxy, env, step, mobile, parentName, parentReadOnly,
              isExistingCustomer, children, pad, finishDisabled, lookups,
              posts, location, out>>

\* The change event of zoneSelect, lines 40-47
ZoneChange(z) ==
  /\ z # queue.zone
  /\ queue' = ClearRefresh([queue EXCEPT !.zone = z])
  /\ UNCHANGED metrics
  /\ WizardIdle

\* handleLoadQueue()
handleLoadQueue(q) ==
  IF q.zone = "" THEN [q EXCEPT !.error = "Please select a zone first"]
  ELSE LET loaded == fetchQueueData(ClearRefresh([q EXCEPT !.currentZoneId = q.zone]))
       IN  IF q.checked THEN startAutoRefresh(loaded) ELSE loaded

\* The page opened with ?zone=z: lines 49-55. A z that is no option of
\* zoneSelect leaves its value "", and `checked` is as the markup has it
OpenedWithZone(z, checked) ==
  /\ queue = QueueLoaded
  /\ queue' = handleLoadQueue([queue EXCEPT !.zone = z, !.checked = checked])
  /\ UNCHANGED metrics
  /\ WizardIdle

\* The click on loadQueueBtn
LoadQueueClick ==
  /\ QueueRoom
  /\ queue' = handleLoadQueue(queue)
  /\ UNCHANGED metrics
  /\ WizardIdle

\* handleAutoRefreshToggle(), the box having just changed to `checked`
handleAutoRefreshToggle(q) ==
  IF q.checked
  THEN IF q.currentZoneId # "null" THEN startAutoRefresh(q) ELSE q
  ELSE stopAutoRefresh(q)

\* The change event of autoRefreshCheckbox
AutoRefreshToggle ==
  /\ Cardinality(queue.timers) < MaxTimers
  /\ queue' = handleAutoRefreshToggle([queue EXCEPT !.checked = ~@])
  /\ UNCHANGED metrics
  /\ WizardIdle

\* The callback of a running interval, lines 102-106
IntervalTick(id) ==
  /\ id \in queue.timers
  /\ QueueRoom
  /\ queue' = fetchQueueData(queue)
  /\ UNCHANGED metrics
  /\ WizardIdle

\* How a queue request settles: the lists of that response, or a failure
QueueAnswers == {"ok", "notok", "neterr"}

\* The response to request i arrives: the rest of fetchQueueData
QueueSettle(i, answer) ==
  /\ i \in 1..Len(queue.reqs)
  /\ queue' =
       [queue EXCEPT
          !.reqs = [j \in 1..(Len(@) - 1) |-> IF j < i THEN @[j] ELSE @[j + 1]],
          !.lists = IF answer = "ok"
                    THEN [kind |-> "data", zoneId |-> queue.reqs[i].zoneId,
                          seq |-> queue.reqs[i].seq]
                    ELSE [kind |-> "unable", zoneId |-> "null",
                          seq |-> queue.reqs[i].seq],
          !.error = IF answer = "ok" THEN @ ELSE "Failed to fetch queue data"]
  /\ UNCHANGED metrics
  /\ WizardIdle

NextQueue ==
  \/ \E z \in Zones, checked \in BOOLEAN : OpenedWithZone(z, checked)
  \/ \E z \in Zones : ZoneChange(z)
  \/ LoadQueueClick
  \/ AutoRefreshToggle
  \/ \E id \in 1..MaxTimers : IntervalTick(id)
  \/ \E i \in 1..MaxQueueRequests, answer \in QueueAnswers : QueueSettle(i, answer)

SpecQueue == Init /\ [][NextQueue]_vars

---------------------------------------------------------------------------
(* The analytics page unnamed/part_002 (analytics.js)                      *)

\* showLoading(containerId)
showLoading(panels, p) == [panels EXCEPT ![p] = "loading"]

\* renderAverageWaitTimes, renderMissedRides, renderAverageRideDuration
RenderPanel(panels, p, answer) ==
  [panels EXCEPT ![p] = IF answer = "rows" THEN "table" ELSE "no-data"]

\* The three render calls of the try block in order; reading a property of
\* null throws, and the calls after it do not run
RECURSIVE RenderFrom(_, _, _)
RenderFrom(panels, p, answers) ==
  IF p > 3 THEN [panels |-> panels, threw |-> FALSE]
  ELSE IF answers[p] = "null" THEN [panels |-> panels, threw |-> TRUE]
  ELSE RenderFrom(RenderPanel(panels, p, answers[p]), p + 1, answers)

\* The catch block of fetchAllMetrics: showError(...)
CatchMetrics(m) == [m EXCEPT !.error = TRUE]

\* The click on fetchDataBtn: fetchAllMetrics() up to its await
FetchDataClick ==
  /\ Len(metrics.runs) < MaxMetricsRuns
  /\ metrics' =
       [metrics EXCEPT
          !.error = FALSE,
          !.panels = showLoading(showLoading(showLoading(@, 1), 2), 3),
          !.runs = Append(@, [answers |-> [p \in Panels |-> "pending"],
                              settled |-> FALSE])]
  /\ UNCHANGED queue
  /\ WizardIdle

\* Request p of run r settles. Promise.all rejects with the first rejection,
\* and fulfils when the three have; the run is over when nothing is pending
MetricsSettle(r, p, answer) ==
  /\ r \in 1..Len(metrics.runs)
  /\ metrics.runs[r].answers[p] = "pending"
  /\ LET Fulfilled == {"rows", "empty", "null"}
         run == metrics.runs[r]
         answers == [run.answers EXCEPT ![p] = answer]
         rejects == ~run.settled /\ answer \notin Fulfilled
         fulfils == ~run.settled /\ \A k \in Panels : answers[k] \in Fulfilled
         shown == RenderFrom(metrics.panels, 1, answers)
         after == IF rejects THEN CatchMetrics(metrics)
                  ELSE IF fulfils
                       THEN IF shown.threw
                            THEN CatchMetrics([metrics EXCEPT !.panels = shown.panels])
                            ELSE [metrics EXCEPT !.panels = shown.panels]
                       ELSE metrics
         over == \A k \in Panels : answers[k] # "pending"
     IN  metrics' =
           [after EXCEPT
              !.runs = IF over
                       THEN [j \in 1..(Len(@) - 1) |-> IF j < r THEN @[j] ELSE @[j + 1]]
                       ELSE [@ EXCEPT ![r] = [answers |-> answers,
                                              settled |-> run.settled \/ rejects \/ fulfils]]]
  /\ UNCHANGED queue
  /\ WizardIdle

NextMetrics ==
  \/ FetchDataClick
  \/ \E r \in 1..MaxMetricsRuns, p \in Panels, answer \in MetricsAnswers :
       MetricsSettle(r, p, answer)

SpecMetrics == Init /\ [][NextMetrics]_vars

---------------------------------------------------------------------------
(* Properties                                                              *)

\* C1: whenever the lookup that followed a Next click on a valid mobile
\* settles, in whatever way, the handler ends with the Details step shown
\* and at least one child row in the container.
C1_SettledLookupShowsDetails ==
  [][(\E i \in 1..MaxLookups, resp \in LookupResponses : LookupSettle(i, resp))
       => (step' = 2 /\ Len(children') >= 1)]_vars

\* The data {parentName: P, children: [c1..cn]} of a lookup response, every
\* ci an object
C2_Data ==
  { [parentName |-> <<"A">>, children |-> cs] :
      cs \in { l \in PrefillLists : \A j \in 1..Len(l) : ~IsNull(l[j]) } }

\* The response {exists: true, data: d}
C2_Response(d) == [kind |-> "json", body |-> [exists |-> TRUE, data |-> d]]

\* The arrival at Details of the response that carries d
C2_Arrival(d) ==
  /\ Len(lookups') < Len(lookups)
  /\ step' = 2
  /\ \E i \in 1..MaxLookups : LookupSettle(i, C2_Response(d))

\* The legal name a returned child carries, under whichever key
C2_LegalName(c) ==
  IF "legalName" \in DOMAIN c THEN c["legalName"]
  ELSE IF "legalname" \in DOMAIN c THEN c["legalname"]
  ELSE IF "name" \in DOMAIN c THEN c["name"]
  ELSE Empty

C2_HasDay(c) == "dob" \in DOMAIN c /\ c["dob"].fmt \in {"ymd", "dmy"}

\* The calendar day a returned child's dob names
C2_Day(c) ==
  IF c["dob"].fmt = "ymd" THEN <<c["dob"].a, c["dob"].b, c["dob"].c>>
  ELSE <<c["dob"].c, c["dob"].b, c["dob"].a>>

\* C2 as stated: when a lookup returns exists=true with {parentName: P,
\* children: [c1..cn]}, then on arrival at Details the parent-name field holds
\* P and is read-only, isExistingCustomer is true and the rows are exactly
\* c1..cn in order, each with its legal name and its date of birth.
C2_PrefillShownExactly ==
  [][\A d \in C2_Data :
       C2_Arrival(d) =>
         LET cs == d["children"]
         IN  /\ parentName' = d["parentName"]
             /\ parentReadOnly'
             /\ isExistingCustomer'
             /\ Len(children') = Len(cs)
             /\ \A j \in 1..Len(cs) :
                  /\ children'[j].legalname = C2_LegalName(cs[j])
                  /\ C2_HasDay(cs[j]) => children'[j].dob = Ymd(C2_Day(cs[j]))]_vars

\* C2, amended: as above for n >= 1, where a row carries the child's date of
\* birth only if that day is not after today minus two years and is empty
\* otherwise; with n = 0 the Details step shows one empty row.
C2_PrefillShownWithinLimit ==
  [][\A d \in C2_Data :
       C2_Arrival(d) =>
         LET cs == d["children"]
         IN  /\ parentName' = d["parentName"]
             /\ parentReadOnly'
             /\ isExistingCustomer'
             /\ IF cs = <<>>
                THEN /\ Len(children') = 1
                     /\ children'[1].legalname = Empty
                     /\ children'[1].dob = NoDate
                ELSE /\ Len(children') = Len(cs)
                     /\ \A j \in 1..Len(cs) :
                          /\ children'[j].index = j
                          /\ children'[j].legalname = C2_LegalName(cs[j])
                          /\ children'[j].dob =
                               IF /\ C2_HasDay(cs[j])
                                  /\ ~DateLess(TwoYearsAgo(Today), C2_Day(cs[j]))
                               THEN Ymd(C2_Day(cs[j]))
                               ELSE NoDate]_vars

\* Details shown after a prefill of two children, the first with its day of
\* birth, the second without
C2_Witness ==
  /\ step = 2 /\ isExistingCustomer /\ parentReadOnly
  /\ parentName = <<"A">>
  /\ Len(children) = 2
  /\ children[1].legalname = <<"B">> /\ children[1].dob = Ymd(OldDate)
  /\ children[2].legalname = <<"B">> /\ children[2].dob = NoDate
  /\ lookups = <<>> /\ out = Quiet

C3_Passing == <<"9", "8", "7", "6", "5", "4", "3", "2", "1", "0">>
C3_LeadingOne == <<"1", "2", "3", "4", "5", "6", "7", "8", "9", "0">>
C3_Short == <<"9", "8", "7", "6", "5", "4", "3", "2">>

\* Exactly ten digits, the first of them in 6..9
C3_Matches(s) ==
  /\ Len(s) = 10
  /\ \A i \in 1..Len(s) : s[i] \in Digits
  /\ s[1] \in {"6", "7", "8", "9"}

\* C3: a Next click in the mobile step passes validateMobile (the lookup is
\* requested) if and only if the field holds exactly ten digits with the first
\* in 6..9, and fails it (the inline error is shown) otherwise; 9876543210
\* passes, 1234567890 and 98765432 fail.  The field holds what the input
\* handler left of the typed text, so the trim() of validateMobile finds
\* nothing to remove.
C3_ValidateMobile ==
  /\ (out.shown = "mobile") => ~C3_Matches(mobile)
  /\ (out.req.kind = "GET") => C3_Matches(mobile)
  /\ (out.shown = "mobile" \/ out.req.kind = "GET") =>
       /\ (mobile = C3_Passing) => (out.req.kind = "GET")
       /\ (mobile \in {C3_LeadingOne, C3_Short}) => (out.shown = "mobile")

\* The click on Next with 1234567890 in the field: the error is shown
C3_Witness == out.shown = "mobile" /\ mobile = C3_LeadingOne

\* C4: in every reachable state in which the Details or the Consent step is
\* shown, the container holds at least one child record.
C4_ChildAlwaysPresent == step \in {2, 3} => Len(children) >= 1

\* The Consent step over a single record, which offers no Remove button
C4_Witness == step = 3 /\ Len(children) = 1 /\ ~children[1].removeShown

C5_NonBlank(text) == \E i \in 1..Len(text) : text[i] # " "

\* The parent-name check: an existing customer, or a name that is not blank
C5_ParentOk == isExistingCustomer \/ C5_NonBlank(parentName)

\* A record with a legal name and a day of birth not after today minus 2 years
C5_ChildOk(g) ==
  /\ C5_NonBlank(g.legalname)
  /\ g.dob.fmt = "ymd"
  /\ g.dob.b \in 1..12 /\ g.dob.c \in 1..31
  /\ ~DateLess(TwoYearsAgo(Today), <<g.dob.a, g.dob.b, g.dob.c>>)

C5_AllOk == C5_ParentOk /\ \A j \in 1..Len(children) : C5_ChildOk(children[j])

\* C5: the Consent step becomes visible only by a Next click in Details at
\* which the parent-name check passes and every record has a legal name and a
\* parseable day of birth not after today minus 2 years; a Next click at which
\* one of these fails leaves Details shown.
C5_ConsentOnlyAfterValidNext ==
  [][/\ (step' = 3 /\ step # 3) => (NextToConsentClick /\ step = 2 /\ C5_AllOk)
     /\ (NextToConsentClick /\ ~C5_AllOk) => step' = 2]_vars

\* The Consent step just entered: the consent text has been rendered
C5_Witness == step = 3 /\ out.text # Empty

\* What the user entered into a record
C6_Content(g) == <<g.legalname, g.displayname, g.dob>>

\* A record whose header, data index and field identifiers all read j
C6_Labelled(g, j) ==
  /\ g.index = j /\ g.header = j /\ g.nameId = j /\ g.dobId = j
  /\ g.displayId = IF HasDisplayName THEN j ELSE 0

\* C6: a removal is of a record k >= 2; after it the other records stand in
\* their former order and are labelled 1..n-1 in header, data index and field
\* identifiers; and the record at position 1 never offers a Remove button.
C6_RemoveRelabels ==
  [][/\ \A k \in 1..MaxRows :
          RemoveChildClick(k) =>
            /\ k >= 2
            /\ Len(children') = Len(children) - 1
            /\ \A j \in 1..(Len(children) - 1) :
                 /\ C6_Content(children'[j]) =
                      C6_Content(children[IF j < k THEN j ELSE j + 1])
                 /\ C6_Labelled(children'[j], j)
     /\ (children' # <<>>) => ~children'[1].removeShown]_vars

\* Three records, the third told apart by its legal name, the second and the
\* third offering Remove
C6_Witness ==
  /\ step = 2 /\ Len(children) = 3
  /\ children[2].removeShown /\ children[3].removeShown
  /\ children[2].legalname = Empty /\ children[3].legalname = <<"B">>
  /\ C6_Labelled(children[3], 3)

\* C7: a click on Finish while the signature pad is empty issues no POST,
\* does not navigate, and leaves the Consent step shown and the session (mobile,
\* parent name, records, signature) as it was.
C7_EmptySignatureBlocks ==
  [][(FinishClick /\ pad = <<>>) =>
       /\ out'.req.kind # "POST"
       /\ posts' = posts
       /\ location' = location
       /\ step' = 3
       /\ UNCHANGED <<mobile, parentName, parentReadOnly, isExistingCustomer,
                      children, pad>>]_vars

\* The alert of the empty signature, raised in the Consent step
C7_Witness ==
  /\ out.alert = AlertSignature /\ step = 3 /\ pad = <<>> /\ posts = <<>> /\ OnForm

\* C8: in every reachable state at most one submission is in flight, and
\* while one is in flight the Finish button is disabled.
C8_OneSubmissionInFlight ==
  /\ Len(posts) <= 1
  /\ (posts # <<>>) => finishDisabled

\* The submission just issued
C8_Witness == Len(posts) = 1 /\ finishDisabled /\ out.req.kind = "POST"

\* C9: in every reachable state at most one prefill lookup is in flight.
C9_OneLookupInFlight == Len(lookups) <= 1

\* A submission that failed: network error, non-OK status, a body that is no
\* JSON or is null, or success false
C10_Failed(resp) ==
  \/ resp.kind \in {"neterr", "notok", "badjson"}
  \/ resp.kind = "json" /\ IsNull(resp.body)
  \/ resp.kind = "json" /\ ~IsNull(resp.body) /\ ~resp.body["success"]

\* C10: when a submission fails, an alert is raised, the page does not
\* navigate, the step shown stays the one it was (Consent, unless the user has
\* left it meanwhile), the session is unchanged and Finish is enabled again.
C10_FailedPostKeepsSession ==
  [][\A i \in 1..MaxPosts, resp \in PostResponses :
       (/\ Len(posts') < Len(posts)
        /\ C10_Failed(resp) /\ PostSettle(i, resp)) =>
         /\ out'.alert # Empty
         /\ location' = location
         /\ step' = step
         /\ ~finishDisabled'
         /\ UNCHANGED <<mobile, parentName, parentReadOnly, isExistingCustomer,
                        children, pad>>]_vars

\* The alert of a failed submission, raised over the Consent step with the
\* signature still on the pad
C10_Witness ==
  /\ out.alert \in {AlertIssue, AlertDuplicate, AlertFailed(<<"Server busy">>)}
  /\ step = 3 /\ pad # NoStrokes /\ ~finishDisabled /\ posts = <<>> /\ OnForm

\* An OK response whose body has success = true
C11_Success(resp) ==
  resp.kind = "json" /\ ~IsNull(resp.body) /\ resp.body["success"] = TRUE

\* C11: the page leaves for the completion page only by the arrival of a
\* submission's response, every response on which it leaves is OK with
\* success = true, and the mobile parameter of the completion URL is the
\* mobile of that submission's payload.
C11_NavigationOnlyAfterSuccess ==
  [][/\ (location' # location) =>
          /\ location'.page = "complete.html"
          /\ \E i \in 1..Len(posts), resp \in PostResponses : PostSettle(i, resp)
          /\ \A i \in 1..Len(posts), resp \in PostResponses :
               PostSettle(i, resp) =>
                 /\ C11_Success(resp)
                 /\ location'.mobile = posts[i].mobile
     /\ (Len(posts') > Len(posts)) =>
          /\ out'.req.kind = "POST"
          /\ out'.req.body.mobile = posts'[Len(posts')].mobile]_vars

\* The completion page, reached with the mobile that was submitted
C11_Witness == location.page = "complete.html" /\ location.mobile = C3_Passing

\* The data a lookup response carries, wrapped or direct
C12_Data(resp) ==
  IF "data" \in DOMAIN resp.body THEN resp.body["data"] ELSE resp.body

\* A lookup that failed (network error, non-OK status, a body that does not
\* parse, a response whose handling throws on a null child) or found nothing
C12_Failed(resp) ==
  \/ resp.kind \in {"neterr", "notok", "badjson"}
  \/ resp.kind = "json" /\ IsNull(resp.body)
  \/ resp.kind = "json" /\ ~IsNull(resp.body) /\ ~resp.body["exists"]
  \/ /\ resp.kind = "json" /\ ~IsNull(resp.body) /\ resp.body["exists"]
     /\ "children" \in DOMAIN C12_Data(resp)
     /\ \E j \in 1..Len(C12_Data(resp)["children"]) :
          IsNull(C12_Data(resp)["children"][j])

\* C12: when the lookup fails or returns exists=false, no error is shown and
\* on arrival at Details isExistingCustomer is false, the parent-name field is
\* empty and editable, and the only child row is an empty one.
C12_FailedLookupLeavesSessionEmpty ==
  [][\A resp \in LookupResponses :
       (/\ Len(lookups') < Len(lookups) /\ step' = 2
        /\ C12_Failed(resp)
        /\ \E i \in 1..Len(lookups) : LookupSettle(i, resp)) =>
         /\ out'.alert = Empty /\ out'.shown = "none"
         /\ ~isExistingCustomer'
         /\ parentName' = Empty /\ ~parentReadOnly'
         /\ Len(children') = 1
         /\ children'[1].legalname = Empty
         /\ children'[1].displayname = Empty
         /\ children'[1].dob = NoDate]_vars

\* C13: after a click on Back in Details, and after an input into the mobile
\* field, the parent name is empty and editable, there is no child record,
\* isExistingCustomer is false and the signature pad holds no stroke.
C13_BackAndMobileChangeResetSession ==
  [][(BackToMobileClick \/ \E raw \in RawMobiles : MobileInput(raw)) =>
       /\ parentName' = Empty /\ ~parentReadOnly'
       /\ children' = <<>>
       /\ ~isExistingCustomer'
       /\ pad' = NoStrokes]_vars

\* A record with a legal name whose day of birth is d
C14_BornOn(g, d) ==
  /\ \E i \in 1..Len(g.legalname) : g.legalname[i] # " "
  /\ g.dob = Ymd(d)

\* C14: on whatever day and in whatever time zone the page runs, a Next click
\* in Details over records all born exactly on today minus 2 years (the
\* parent-name check passing) is accepted, and one over a record born later
\* is rejected.
C14_BoundaryDayAccepted ==
  [][NextToConsentClick =>
       /\ (/\ isExistingCustomer \/ \E i \in 1..Len(parentName) : parentName[i] # " "
           /\ children # <<>>
           /\ \A j \in 1..Len(children) :
                C14_BornOn(children[j], TwoYearsAgo(env.today))) => step' = 3
       /\ (\E j \in 1..Len(children) :
             /\ children[j].dob.fmt = "ymd"
             /\ DateLess(TwoYearsAgo(env.today), DateOf(children[j].dob)))
            => step' = 2]_vars

C15_Name(g) ==
  Trim(g.legalname)
    \o (IF HasDisplayName /\ Trim(g.displayname) # Empty
        THEN <<" ", "(">> \o Trim(g.displayname) \o <<")">>
        ELSE Empty)

\* The names of the first n records, in list order, separated by ", "
RECURSIVE C15_Names(_, _)
C15_Names(kids, n) ==
  IF n = 0 THEN Empty
  ELSE IF n = 1 THEN C15_Name(kids[1])
  ELSE C15_Names(kids, n - 1) \o <<",", " ">> \o C15_Name(kids[n])

\* C15: the consent text shown on entering Consent is a function of the parent
\* name and the child list alone: the names come in list order joined by ", ",
\* each the legal name followed by " (displayName)" exactly when a display
\* name is present, and composing it changes neither the parent name nor the
\* records.
C15_ConsentTextPure ==
  [][(NextToConsentClick /\ step' = 3) =>
       /\ out'.text = <<"I, ">> \o Trim(parentName)
                        \o <<", as the parent/guardian of ">>
                        \o C15_Names(children, Len(children))
                        \o <<", hereby give consent ...">>
       /\ Len(children') = Len(children)
       /\ \A j \in 1..Len(children) :
            [children'[j] EXCEPT !.errors = <<>>] =
              [children[j] EXCEPT !.errors = <<>>]
       /\ parentName' = parentName
       /\ isExistingCustomer' = isExistingCustomer]_vars

\* A text composed over two records, the first with a display name, the second
\* without
C15_Witness ==
  /\ step = 3 /\ out.text # Empty
  /\ Len(children) = 2
  /\ children[1].legalname # children[2].legalname
  /\ children[1].displayname # Empty
  /\ children[2].displayname = Empty

\* The parent-name field holds nothing but spaces
C18_Blank == \A i \in 1..Len(parentName) : parentName[i] = " "

\* C18: a Next click in Details shows the parent-name error and leaves the step
\* alone exactly when the field is empty or blank and isExistingCustomer is
\* false; for an existing customer the parent-name error is never shown,
\* whatever the field holds.
C18_ParentNameRequiredUnlessExisting ==
  [][NextToConsentClick =>
       /\ (out'.shown = "parentName") <=> (C18_Blank /\ ~isExistingCustomer)
       /\ (out'.shown = "parentName") => step' = step
       /\ (isExistingCustomer /\ \A j \in 1..Len(children) : GroupValid(children[j]))
            => step' = 3]_vars

\* A Next click refused over a blank parent name
C18_Witness ==
  /\ step = 2 /\ out.shown = "parentName"
  /\ ~isExistingCustomer /\ parentName = <<" ">>

\* The mobile field holds ten digits of which the first is 6, 7, 8 or 9
C19_TenDigits ==
  /\ Len(mobile) = 10
  /\ mobile[1] \in {"6", "7", "8", "9"}
  /\ \A i \in 1..Len(mobile) : mobile[i] \in Digits

\* C19: a Next click in MobileEntry over a mobile that fails validation shows
\* the inline error, issues no lookup, leaves the step at MobileEntry and leaves
\* parent name, child records and isExistingCustomer as they were.
C19_InvalidMobileBlocks ==
  [][(NextToDetailsClick /\ ~C19_TenDigits) =>
       /\ out'.shown = "mobile"
       /\ out'.req = NoReq
       /\ lookups' = lookups
       /\ step' = 1
       /\ parentName' = parentName
       /\ parentReadOnly' = parentReadOnly
       /\ children' = children
       /\ isExistingCustomer' = isExistingCustomer]_vars

\* The inline error shown over a number that fails, a name being in the form
C19_Witness ==
  /\ step = 1 /\ out.shown = "mobile"
  /\ ~C19_TenDigits /\ mobile # Empty
  /\ parentName # Empty

\* What a record shows of its place: header, data index, field identifiers and
\* whether its Remove control is visible
C20_Labels(g) ==
  <<g.index, g.header, g.nameId, g.displayId, g.dobId, g.removeShown>>

\* What the user entered into the records of a list, in their order
C20_Entries(kids) ==
  [i \in 1..Len(kids) |-> <<kids[i].legalname, kids[i].displayname, kids[i].dob>>]

\* C20: reindexing is idempotent and order-preserving. Over the list any
\* removal hands to reindexChildren, with its labels still those of before the
\* removal, reindexing twice gives the labels, identifiers and Remove
\* visibility that reindexing once gives, and the records stay in their order.
C20_ReindexIdempotent ==
  \A k \in 1..Len(children) :
    LET before == RemoveAt(children, k)
        once   == reindexChildren(before)
        twice  == reindexChildren(once)
    IN  /\ Len(once) = Len(before)
        /\ \A i \in 1..Len(before) : C20_Labels(twice[i]) = C20_Labels(once[i])
        /\ C20_Entries(once) = C20_Entries(before)
        /\ C20_Entries(twice) = C20_Entries(before)

\* Three records told apart by what was typed, over which a removal of the
\* first or second leaves labels that reindexing has to change
C20_Witness ==
  /\ step = 2 /\ Len(children) = 3
  /\ children[2].legalname # children[3].legalname
  /\ reindexChildren(RemoveAt(children, 2)) # RemoveAt(children, 2)

\* The query string of a request URL: all that follows its first "?"
C21_Query(url) ==
  IF \E i \in 1..Len(url) : url[i] = "?"
  THEN SubSeq(url, 1 + CHOOSE i \in 1..Len(url) :
                         url[i] = "?" /\ \A j \in 1..(i - 1) : url[j] # "?",
              Len(url))
  ELSE Empty

\* The query string of the URL fetched
C21_Forwarded == C21_Query(proxy'.fetch.url)

\* C21: each proxy answers OPTIONS with 200 and no call to the backend; for any
\* other request it forwards the query string (the consent proxy the method and
\* the JSON body as well) and replies with the backend's status and JSON body
\* unchanged, the CORS headers added.
C21_ProxiedVerbatim ==
  [][/\ \A h \in ProxyHandlers : \A req \in ProxyRequests(h) :
          ProxyReceive(h, req) =>
            IF req.method = "OPTIONS"
            THEN /\ proxy'.reply.sent /\ proxy'.reply.status = 200
                 /\ proxy'.reply.cors = CorsHeaders(h)
                 /\ ~proxy'.fetch.sent
            ELSE /\ proxy'.fetch.sent
                 /\ C21_Forwarded = C21_Query(req.url)
                 /\ (h = "consent") =>
                      /\ proxy'.fetch.method = req.method
                      /\ (req.method # "GET" /\ req.body # Undefined) =>
                           proxy'.fetch.body = [json |-> req.body]
     /\ \A answer \in BackendAnswers :
          ProxySettle(answer) =>
            /\ proxy'.reply.sent
            /\ proxy'.reply.cors = CorsHeaders(proxy.handler)
            /\ (answer.kind # "neterr") => proxy'.reply.status = answer.status
            /\ (answer.kind = "json") => proxy'.reply.body = answer.body]_vars

\* C22: in every reachable state the records are numbered 1..n in display
\* order in header, data index and field identifiers, no two records share a
\* number, and the Remove control is hidden on record 1 and on no other.
C22_NumberedInOrder ==
  /\ \A i \in 1..Len(children) :
       /\ children[i].header = i
       /\ children[i].index = i
       /\ children[i].nameId = i
       /\ children[i].dobId = i
       /\ children[i].displayId \in {0, i}
       /\ children[i].removeShown <=> (i > 1)
  /\ \A i, j \in 1..Len(children) :
       (i # j) => /\ children[i].header # children[j].header
                  /\ children[i].nameId # children[j].nameId
                  /\ children[i].dobId # children[j].dobId

\* Three records of which the last came by Add after a prefill of two
C22_Witness ==
  /\ step = 2 /\ Len(children) = 3
  /\ children[1].legalname = <<"B">>
  /\ children[3].legalname = Empty
  /\ children[3].header = 3 /\ children[3].removeShown

\* Lookup i was started for a mobile that the field no longer holds, or a
\* later lookup has been started since
C23_Stale(i) == lookups[i] # mobile \/ i < Len(lookups)

\* C23: a response that settles for a lookup whose mobile is no longer the one
\* in the mobile field, or after which a later lookup was started, neither
\* fills the parent name or the records nor marks an existing customer.
C23_StaleResponseIgnored ==
  [][(Len(lookups') < Len(lookups)) =>
       \A i \in 1..Len(lookups), resp \in LookupResponses :
         (C23_Stale(i) /\ LookupSettle(i, resp)) =>
           /\ ~isExistingCustomer'
           /\ parentName' = parentName
           /\ \A j \in 1..Len(children') :
                children'[j].legalname = Empty \/ j <= Len(children)]_vars

\* C24: a lookup response that settles when Details or Consent is already
\* shown changes neither the active step nor the parent name and the records
\* the user has entered.
C24_LateResponseChangesNothing ==
  [][(/\ Len(lookups') < Len(lookups)
      /\ location' = location
      /\ step \in {2, 3}) =>
       /\ step' = step
       /\ parentName' = parentName
       /\ children' = children]_vars

\* C25: while the form is open exactly one of the three steps is active, and
\* every change of the active step is MobileEntry to Details, Details to
\* Consent, Consent to Details or Details to MobileEntry: never MobileEntry to
\* Consent, never Consent to MobileEntry.
C25_ListedTransitionsOnly ==
  [][(location'.page = "consent.html") =>
       /\ step' \in {1, 2, 3}
       /\ (step' # step) =>
            <<step, step'>> \in {<<1, 2>>, <<2, 3>>, <<3, 2>>, <<2, 1>>}]_vars

\* Details shown again over a signature drawn in Consent: 1-2, 2-3, 3-2 taken
C25_Witness ==
  /\ step = 2 /\ pad # NoStrokes /\ location.page = "consent.html"

\* A text of ten digits of which the first is 6, 7, 8 or 9
C26_Matches(text) ==
  /\ Len(text) = 10
  /\ text[1] \in {"6", "7", "8", "9"}
  /\ \A i \in 1..Len(text) : text[i] \in Digits

\* C26: every submission POST carries a mobile of ten digits starting with 6 to
\* 9, whatever edits of the mobile field, Next clicks and lookup responses came
\* before the Finish click.
C26_PostedMobileValid ==
  [][(Len(posts') > Len(posts)) =>
       /\ out'.req.kind = "POST"
       /\ C26_Matches(out'.req.body.mobile)]_vars

\* C27: every submission POST carries a parent name that is not empty, also
\* for an existing customer whose lookup data held no parent name.
C27_PostedParentNamePresent ==
  [][(Len(posts') > Len(posts)) =>
       /\ out'.req.kind = "POST"
       /\ out'.req.body.parentName # Empty]_vars

\* C28: whenever Consent is shown the text displayed is composeConsentText of
\* the current parent name and records: the Next click that opens Consent
\* renders that text, nothing changes the parent name or the records while
\* Consent stays shown, and the payload of Finish is built from these same
\* fields.
C28_TextMatchesSession ==
  [][/\ (step' = 3 /\ step # 3) =>
          out'.text = composeConsentText(Trim(parentName'), getChildData(children'))
     /\ (step' = 3 /\ step = 3) =>
          /\ parentName' = parentName
          /\ children' = children
     /\ (Len(posts') > Len(posts)) =>
          /\ step = 3
          /\ out'.req.body.parentName = Trim(parentName)
          /\ out'.req.body.children = getChildData(children)]_vars

\* A submission from Consent over a parent name and two records
C28_Witness ==
  /\ step = 3 /\ out.req.kind = "POST"
  /\ out.req.body.parentName = <<"A">>
  /\ Len(out.req.body.children) = 2

\* C29: the Back click in Consent changes the active step to Details and
\* nothing else: parent name, its read-only flag, isExistingCustomer, mobile,
\* records and signature stay as they were.
C29_BackToDetailsKeepsSession ==
  [][BackToDetailsClick =>
       /\ step = 3 /\ step' = 2
       /\ parentName' = parentName
       /\ parentReadOnly' = parentReadOnly
       /\ isExistingCustomer' = isExistingCustomer
       /\ mobile' = mobile
       /\ children' = children
       /\ pad' = pad
       /\ lookups' = lookups /\ posts' = posts
       /\ location' = location]_vars

\* Details shown over an existing customer's prefilled records, with the
\* signature drawn in Consent still on the pad and no lookup outstanding
C29_Witness ==
  /\ step = 2 /\ pad # NoStrokes /\ lookups = <<>>
  /\ isExistingCustomer /\ parentReadOnly
  /\ parentName = <<"A">> /\ Len(children) = 2

\* C30: settling a lookup with the wrapped answer {exists, data: {parentName,
\* children}} and with the direct answer {exists, parentName, children} of the
\* same content leads to the same state, and so do answers that differ only
\* in spelling a child's legal name key legalName, legalname or name and its
\* display name key displayName or displayname.
C30_ShapesAgree ==
  [][(Len(lookups') < Len(lookups)) =>
       \A i \in 1..Len(lookups) :
         /\ \A d \in ShapeData :
              LookupSettle(i, Wrapped(d)) <=> LookupSettle(i, Direct(d))
         /\ \A k1, k2 \in LegalNameKeys, n1, n2 \in DisplayNameKeys :
              LET d1 == [parentName |-> <<"A">>, children |-> <<ShapeChild(k1, n1)>>]
                  d2 == [parentName |-> <<"A">>, children |-> <<ShapeChild(k2, n2)>>]
              IN  LookupSettle(i, Direct(d1)) <=> LookupSettle(i, Wrapped(d2))]_vars

\* Details over the one prefilled child of an existing customer
C30_Witness ==
  /\ step = 2 /\ isExistingCustomer /\ parentReadOnly
  /\ parentName = <<"A">>
  /\ Len(children) = 1
  /\ children[1].legalname = <<"B">>
  /\ children[1].dob = Ymd(OldDate)

\* A text with no blank at either end
C31_Trimmed(text) ==
  text = Empty \/ (text[1] # " " /\ text[Len(text)] # " ")

\* C31: the payload sent by Finish is {parentName, mobile, children,
\* signature}, and children holds one entry {legalname, displayname, dob} per
\* record, in display order, the names without surrounding blanks.
C31_PayloadShape ==
  [][(Len(posts') > Len(posts)) =>
       LET body == out'.req.body
       IN  /\ DOMAIN body = {"parentName", "mobile", "children", "signature"}
           /\ Len(body.children) = Len(children)
           /\ \A j \in 1..Len(children) :
                /\ DOMAIN body.children[j] = {"legalname", "displayname", "dob"}
                /\ body.children[j].legalname = Trim(children[j].legalname)
                /\ C31_Trimmed(body.children[j].legalname)
                /\ body.children[j].displayname = Trim(children[j].displayname)
                /\ body.children[j].dob = children[j].dob]_vars

\* C32: every submission whose POST settles, by success, success = false, a
\* status that is not OK or a thrown error, leaves the Finish button enabled
\* (and its label restored by the same block); where every POST settles, a
\* disabled button is always enabled again.
C32_FinishReenabled ==
  /\ [][(Len(posts') < Len(posts)) => ~finishDisabled']_vars
  /\ (finishDisabled ~> ~finishDisabled)

\* A submission that ended in the catch block, the button enabled again
C32_Witness ==
  /\ step = 3 /\ posts = <<>> /\ ~finishDisabled
  /\ out.alert = AlertError /\ OnForm

\* The answers of the backend that carry success = false
C33_Refusals ==
  { resp \in PostResponses :
      resp.kind = "json" /\ ~IsNull(resp.body) /\ resp.body["success"] = FALSE }

\* C33: when the backend answers a submission with success = false, the alert
\* is the duplicate-same-day guidance exactly when the message contains
\* 'already submitted', and otherwise carries the backend's message as it came
\* (a generic text when there is none).
C33_RefusalShown ==
  [][(Len(posts') < Len(posts)) =>
       \A i \in 1..Len(posts), resp \in C33_Refusals :
         PostSettle(i, resp) =>
           LET message == Prop(resp.body, "message")
           IN  IF \E j \in 1..Len(message) : message[j] = "already submitted"
               THEN out'.alert = AlertDuplicate
               ELSE /\ out'.alert # AlertDuplicate
                    /\ out'.alert = <<"Submission failed: ">>
                                      \o (IF message = Empty THEN AlertUnknown
                                          ELSE message)]_vars

\* C35: after every input event on the mobile field its value holds digits
\* only, ten at most, and isExistingCustomer, the parent name, its read-only
\* flag and the records are cleared.
C35_InputSanitisesAndClears ==
  [][(\E raw \in EntryRaws : MobileInput(raw)) =>
       /\ Len(mobile') <= 10
       /\ \A i \in 1..Len(mobile') :
            mobile'[i] \in {"0", "1", "2", "3", "4", "5", "6", "7", "8", "9"}
       /\ ~isExistingCustomer'
       /\ parentName' = Empty
       /\ ~parentReadOnly'
       /\ children' = <<>>]_vars

\* Ten digits left of what was typed while a lookup is out
C35_Witness ==
  /\ step = 1 /\ Len(mobile) = 10 /\ lookups # <<>>
  /\ out = Quiet /\ parentName = Empty

\* C34: however often the records are validated, each carries at most one
\* error message, and after a validation it carries one exactly when that
\* validation found it wanting: what earlier runs attached is gone, and a
\* record that is now valid carries none.
C34_OneErrorOfLatestRun ==
  [][/\ \A j \in 1..Len(children') : Len(children'[j].errors) <= 1
     /\ (NextToConsentClick /\ validateParentNameIfNeeded) =>
          /\ Len(children') = Len(children)
          /\ \A j \in 1..Len(children) :
               (children'[j].errors = <<>>) <=> GroupValid(children[j])]_vars

\* Two records validated more than once: the first, now complete, carries no
\* message, the second still carries its one
C34_Witness ==
  /\ step = 2 /\ Len(children) = 2
  /\ GroupValid(children[1]) /\ children[1].errors = <<>>
  /\ ~GroupValid(children[2]) /\ Len(children[2].errors) = 1
  /\ out.shown = "children"

---------------------------------------------------------------------------
(* The queue page's refresh interval                                       *)

\* C36: on the queue page at most one refresh interval runs at any time, and
\* refreshIntervalId is set exactly when one runs (and is that interval's
\* id), whatever Load clicks, toggles of the box and zone changes came before
C36_OneRefreshTimer ==
  /\ Cardinality(queue.timers) <= 1
  /\ (queue.refreshIntervalId # 0) <=> (queue.timers # {})
  /\ queue.refreshIntervalId # 0 => queue.timers = {queue.refreshIntervalId}

\* A zone loaded a second time while the interval of the first load ran
C36_Witness ==
  /\ queue.refreshIntervalId # 0
  /\ queue.issued >= 2
  /\ queue.zone = queue.currentZoneId

\* C37: an interval runs only while the box is checked and a zone has been
\* loaded; unchecking the box or changing the zone selection leaves no interval
\* running; an interval starts only by a Load (the click, or the page opened
\* with ?zone=) or by checking the box; and while none runs, only a Load
\* issues a queue request
C37_TimerOnlyWhileCheckedAndLoaded ==
  /\ [](queue.timers # {} => queue.checked /\ queue.currentZoneId # "null")
  /\ [][ /\ (\E z \in Zones : ZoneChange(z)) => queue'.timers = {}
         /\ (AutoRefreshToggle /\ ~queue'.checked) => queue'.timers = {}
         /\ (queue.timers = {} /\ queue'.timers # {})
              => /\ queue'.checked
                 /\ \/ LoadQueueClick
                    \/ AutoRefreshToggle
                    \/ \E z \in Zones, c \in BOOLEAN : OpenedWithZone(z, c)
         /\ (queue.timers = {} /\ queue'.issued > queue.issued)
              => \/ LoadQueueClick
                 \/ \E z \in Zones, c \in BOOLEAN : OpenedWithZone(z, c) ]_vars

\* The box unchecked after a zone was loaded and polled, no interval left
C37_Witness ==
  /\ ~queue.checked
  /\ queue.timers = {}
  /\ queue.currentZoneId # "null"
  /\ queue.issued >= 2

\* C38: once no queue request is outstanding, the waiting and inside lists
\* shown are those of the response to the request issued last, which asked
\* for currentZoneId
C38_NewestResponseShown ==
  (queue.reqs = <<>> /\ queue.lists.kind = "data")
    => /\ queue.lists.seq = queue.issued
       /\ queue.lists.zoneId = queue.currentZoneId

---------------------------------------------------------------------------
(* The analytics panels                                                    *)

\* C39: once a fetchAllMetrics has settled and none of its requests is
\* outstanding, no panel shows `Loading data...`
C39_NoPanelLeftLoading ==
  metrics.runs = <<>> => \A p \in Panels : metrics.panels[p] # "loading"

====
